---- MODULE Spec2Model ----
(***************************************************************************)
(* wenqu: the hierarchical Markdown section splitter                       *)
(* (wenqu/modules/splitters/markdown.py), the language classifier          *)
(* (wenqu/modules/parsers/base.py) and the parsers that choose a splitter  *)
(* by language (wenqu/modules/parsers/markdown.py, txt.py).                *)
(*                                                                         *)
(* Strings are sequences of tokens; a token stands for one character (or   *)
(* for a run of characters that no operation of the program looks into).   *)
(* A Markdown document is given by its syntax tree, the value that         *)
(* SyntaxTreeNode(self.parser.parse(text)) has; the raw text is the        *)
(* serialisation of that tree.  Parser (markdown-it) and renderer          *)
(* (mdformat) are libraries: every node carries the text its rendering     *)
(* returns, and whether its rendering raises.                              *)
(***************************************************************************)
EXTENDS Integers, Sequences, FiniteSets, TLC

VARIABLES
    cfg,                 \* the splitter's constructor arguments
    doc,                 \* children of the root SyntaxTreeNode of `text`
    text,                \* create_documents: texts[0]
    metadatas,           \* create_documents: metadatas[0], the caller's base metadata
    pending,             \* what the generator split_text(text, metadata) has still to yield
    index,               \* create_documents: index
    previous_chunk_len,  \* create_documents: previous_chunk_len
    documents,           \* create_documents: documents
    origin,              \* history: for documents[i], the section it was cut from and
                         \* (index, previous_chunk_len) before and after its turn
    pc,                  \* "idle", "loop" (inside the for loop), "done" (returned)
    lang,                \* BaseParser.get_language: its input, the detector's outcome, its result
    parser               \* a MarkdownParser or TXTParser: its attributes, the position of its
                         \* call and the signals sent so far

vars == <<cfg, doc, text, metadatas, pending, index, previous_chunk_len,
          documents, origin, pc, lang, parser>>

\* ----------------------------------------------------------------- bounds
MaxNodes == 3
MaxLevel == 3
MaxLen == 5
MaxChunk == 3

\* ------------------------------------------------------- program constants
DefaultChunkSize == 512
DefaultChunkOverlap == 51
LangSampleLen == 500

\* ---------------------------------------------------------------- strings
Whitespace == {" ", "\n", "\t"}

RECURSIVE LStrip(_)
LStrip(s) ==
    IF s # <<>> /\ Head(s) \in Whitespace THEN LStrip(Tail(s)) ELSE s

RECURSIVE RStrip(_)
RStrip(s) ==
    IF s # <<>> /\ s[Len(s)] \in Whitespace THEN RStrip(SubSeq(s, 1, Len(s) - 1)) ELSE s

\* str.strip()
Strip(s) == RStrip(LStrip(s))

\* s[i:j] of Python, 0-based and half-open, for 0 <= i
Slice(s, i, j) == SubSeq(s, i + 1, IF j > Len(s) THEN Len(s) ELSE j)

\* str.find(sub, start): the lowest 0-based offset >= start at which sub
\* occurs, or -1
Find(s, sub, start) ==
    LET hits == {i \in start..(Len(s) - Len(sub)) : Slice(s, i, i + Len(sub)) = sub}
    IN  IF hits = {} THEN -1 ELSE CHOOSE i \in hits : \A j \in hits : i <= j

RECURSIVE Concat(_)
\* "".join(seq of strings)
Concat(ss) == IF ss = <<>> THEN <<>> ELSE Head(ss) \o Concat(Tail(ss))

RECURSIVE Join(_, _)
\* sep.join(seq of strings)
Join(sep, ss) ==
    IF ss = <<>> THEN <<>>
    ELSE IF Len(ss) = 1 THEN ss[1]
    ELSE LET half == Len(ss) \div 2
         IN  Join(sep, SubSeq(ss, 1, half)) \o sep
                 \o Join(sep, SubSeq(ss, half + 1, Len(ss)))

\* ------------------------------------------ the recursive bounded splitter
\* RecursiveCharacterTextSplitter, the base class of MarkdownTextSplitter.
\* MarkdownTextSplitter.__init__ fixes keep_separator="end" and
\* strip_whitespace=True.
StripWhitespace == TRUE

\* separators=None (or an empty list) selects the generic cascade
DefaultSeparators == << <<"\n", "\n">>, <<"\n">>, <<" ">>, <<>> >>

Separators(c) == IF c.separators = <<>> THEN DefaultSeparators ELSE c.separators

\* re.search(re.escape(sep), s) for a literal, non-empty separator
Occurs(sep, s) == Find(s, sep, 0) # -1

RECURSIVE SplitKeepEnd(_, _)
\* re.split("(sep)", s) with every separator glued to the end of the piece
\* before it (keep_separator="end"); the last piece is what follows the last
\* separator
SplitKeepEnd(s, sep) ==
    LET i == Find(s, sep, 0)
    IN  IF i = -1 THEN <<s>>
        ELSE <<Slice(s, 0, i + Len(sep))>>
                 \o SplitKeepEnd(Slice(s, i + Len(sep), Len(s)), sep)

\* _split_text_with_regex(text, separator, keep_separator): empty pieces are
\* dropped; the empty separator splits into characters
SplitTextWithRegex(s, sep) ==
    IF sep # <<>>
    THEN SelectSeq(SplitKeepEnd(s, sep), LAMBDA p : p # <<>>)
    ELSE [i \in 1..Len(s) |-> <<s[i]>>]

\* _join_docs(docs, ""): None (no document) when nothing but whitespace is left
JoinDocs(docs) ==
    LET t == IF StripWhitespace THEN Strip(Concat(docs)) ELSE Concat(docs)
    IN  IF t = <<>> THEN <<>> ELSE <<t>>

RECURSIVE PopFront(_, _, _, _)
\* the while loop of _merge_splits: drop pieces from the front of the current
\* document until at most chunk_overlap is left and the next piece fits
PopFront(cur, total, len, c) ==
    IF total > c.chunk_overlap \/ (total + len > c.chunk_size /\ total > 0)
    THEN PopFront(Tail(cur), total - Len(Head(cur)), len, c)
    ELSE [cur |-> cur, total |-> total]

RECURSIVE MergeLoop(_, _, _, _, _)
MergeLoop(splits, docs, cur, total, c) ==
    IF splits = <<>> THEN docs \o JoinDocs(cur)
    ELSE LET d == Head(splits)
             emit == total + Len(d) > c.chunk_size /\ cur # <<>>
             st == IF emit THEN PopFront(cur, total, Len(d), c)
                           ELSE [cur |-> cur, total |-> total]
         IN  MergeLoop(Tail(splits),
                       IF emit THEN docs \o JoinDocs(cur) ELSE docs,
                       Append(st.cur, d), st.total + Len(d), c)

\* _merge_splits(splits, ""): the joining separator is empty because the
\* separators are kept in the pieces
MergeSplits(splits, c) == MergeLoop(splits, <<>>, <<>>, 0, c)

RECURSIVE PickSeparator(_, _, _)
\* the first separator of the cascade that occurs in the text, with the
\* separators after it; the last one, with none after it, when none occurs
PickSeparator(s, seps, i) ==
    IF i > Len(seps) THEN [separator |-> seps[Len(seps)], new_separators |-> <<>>]
    ELSE IF seps[i] = <<>> THEN [separator |-> <<>>, new_separators |-> <<>>]
    ELSE IF Occurs(seps[i], s)
         THEN [separator |-> seps[i],
               new_separators |-> SubSeq(seps, i + 1, Len(seps))]
    ELSE PickSeparator(s, seps, i + 1)

RECURSIVE RecursiveSplit(_, _, _)
RECURSIVE SplitLoop(_, _, _, _, _)
\* the for loop of _split_text over the pieces
SplitLoop(splits, good, final, new_separators, c) ==
    LET flushed == IF good # <<>> THEN final \o MergeSplits(good, c) ELSE final
    IN  IF splits = <<>> THEN flushed
        ELSE LET s == Head(splits)
             IN  IF Len(s) < c.chunk_size
                 THEN SplitLoop(Tail(splits), Append(good, s), final, new_separators, c)
                 ELSE SplitLoop(Tail(splits), <<>>,
                                flushed \o (IF new_separators = <<>> THEN <<s>>
                                            ELSE RecursiveSplit(s, new_separators, c)),
                                new_separators, c)

\* RecursiveCharacterTextSplitter._split_text(text, separators)
RecursiveSplit(s, seps, c) ==
    LET pick == PickSeparator(s, seps, 1)
    IN  SplitLoop(SplitTextWithRegex(s, pick.separator), <<>>, <<>>,
                  pick.new_separators, c)

\* ------------------------------------------------------ the syntax tree
\* One SyntaxTreeNode.  type and children are the node's; level is
\* len(node.markup) of a heading; src is attrs["src"] of an image; raw is the
\* node's source text and, for an HTML node, node.content; html_table and
\* html_img are str() of the first <table> and <img> element BeautifulSoup
\* finds in node.content (empty: none) and html_img_src is that <img>'s src;
\* rendered is what MDRenderer.render returns for the node's tokens and bad
\* says that this call raises instead; id is the position of the top-level
\* block the node belongs to.
Node(type, id, raw) ==
    [type |-> type, id |-> id, level |-> 0, raw |-> raw,
     rendered |-> raw \o <<"\n">>, bad |-> FALSE, children |-> <<>>,
     src |-> <<>>, html_table |-> <<>>, html_img |-> <<>>, html_img_src |-> <<>>]

RECURSIVE Hashes(_)
Hashes(n) == IF n = 0 THEN <<>> ELSE <<"#">> \o Hashes(n - 1)

\* an ATX heading of the given level
Heading(id, level, name) ==
    [Node("heading", id, Hashes(level) \o <<" ">> \o name) EXCEPT !.level = level]

Paragraph(id, body) ==
    [Node("paragraph", id, body) EXCEPT
        !.children = << [Node("inline", id, body) EXCEPT
                            !.children = << Node("text", id, body) >>] >>]

Image(id, url) ==
    [Node("image", id, <<"![x](">> \o url \o <<")">>) EXCEPT !.src = url]

\* a paragraph of three lines: prose, an image, prose
ImageParagraph(id, before, url, after) ==
    LET raw == before \o <<"\n">> \o Image(id, url).raw \o <<"\n">> \o after
    IN  [Node("paragraph", id, raw) EXCEPT
            !.children = << [Node("inline", id, raw) EXCEPT
                !.children = << Node("text", id, before), Node("softbreak", id, <<"\n">>),
                                Image(id, url), Node("softbreak", id, <<"\n">>),
                                Node("text", id, after) >>] >>]

Table(id, body) == Node("table", id, body)

\* an HTML block that holds a <table> element and an <img> element
HtmlBlock(id, cell, url) ==
    [Node("html_block", id,
          <<"<table>">> \o cell \o <<"</table>">> \o <<"<img src=">> \o url \o <<">">>)
     EXCEPT !.html_table = <<"<table>">> \o cell \o <<"</table>">>,
            !.html_img = <<"<img src=">> \o url \o <<"/>">>,
            !.html_img_src = url]

\* self.parser.parse(text), read backwards: the text whose tree is `nodes`
Source(nodes) ==
    IF nodes = <<>> THEN <<>>
    ELSE Join(<<"\n", "\n">>, [i \in 1..Len(nodes) |-> nodes[i].raw]) \o <<"\n">>

\* ------------------------------------------------------------ dictionaries
EmptyDict == [k \in {} |-> 0]

\* {**a, **b}: the keys of b win
Update(a, b) ==
    [k \in DOMAIN a \cup DOMAIN b |-> IF k \in DOMAIN b THEN b[k] ELSE a[k]]

\* ------------------------------------------------- the non-text extractor
FindHtmlTable(node) == node.html_table

FindHtmlImg(node) == node.html_img

RECURSIVE IsContainNontext(_)
IsContainNontext(node) ==
    \/ node.type \in {"image", "table"}
    \/ /\ node.type \in {"html_block", "html_inline"}
       /\ (FindHtmlTable(node) # <<>> \/ FindHtmlImg(node) # <<>>)
    \/ \E i \in 1..Len(node.children) : IsContainNontext(node.children[i])

\* _get_treenode_text without its except branch giving "": what was rendered
\* of the node is returned whether or not the rendering raised
GetTreenodeTextUncaught(node) == node.rendered

\* _get_treenode_text: a rendering that raises is logged and gives ""
GetTreenodeText(node) == IF node.bad THEN <<>> ELSE node.rendered

\* A section as _split_by_header yields it: (title, text, type, metadata);
\* nodes is history, the top-level blocks the text was taken from.
Section(title, body, type, metadata, nodes) ==
    [title |-> title, text |-> body, type |-> type, metadata |-> metadata,
     nodes |-> nodes]

RECURSIVE GetNontextContent(_, _)
RECURSIVE NontextOfChildren(_, _)
NontextOfChildren(children, title) ==
    IF children = <<>> THEN <<>>
    ELSE (IF IsContainNontext(Head(children))
          THEN GetNontextContent(Head(children), title) ELSE <<>>)
         \o NontextOfChildren(Tail(children), title)

GetNontextContent(node, title) ==
    IF node.type = "image"
    THEN << Section(title, node.src, "image", [image_url |-> node.src], {node.id}) >>
    ELSE IF node.type = "table"
    THEN << Section(title, GetTreenodeText(node), "table", EmptyDict, {node.id}) >>
    ELSE IF node.type \in {"html_block", "html_inline"}
    THEN (IF FindHtmlTable(node) # <<>>
          THEN << Section(title, FindHtmlTable(node), "table", EmptyDict, {node.id}) >>
          ELSE <<>>)
         \o (IF FindHtmlImg(node) # <<>>
             THEN << Section(title, FindHtmlImg(node), "image",
                             [image_url |-> node.html_img_src], {node.id}) >>
             ELSE <<>>)
    ELSE NontextOfChildren(node.children, title)

RECURSIVE GetNodesNontextContents(_, _)
GetNodesNontextContents(nodes, title) ==
    IF nodes = <<>> THEN <<>>
    ELSE (IF IsContainNontext(Head(nodes))
          THEN GetNontextContent(Head(nodes), title) ELSE <<>>)
         \o GetNodesNontextContents(Tail(nodes), title)

\* _get_treenodes_text: the renderings of the nodes that hold no image or table
GetTreenodesText(nodes) ==
    Concat([i \in 1..Len(nodes) |->
              IF IsContainNontext(nodes[i]) THEN <<>> ELSE GetTreenodeText(nodes[i])])

\* the blocks whose rendering went into GetTreenodesText(nodes)
TextNodes(nodes) ==
    {nodes[i].id : i \in {j \in 1..Len(nodes) :
        ~IsContainNontext(nodes[j]) /\ Strip(GetTreenodeText(nodes[j])) # <<>>}}

\* ------------------------------------------------- the header splitter
RECURSIVE SplitBeforeLoop(_, _, _, _)
SplitBeforeLoop(nodes, level, buf, out) ==
    IF nodes = <<>> THEN (IF buf # <<>> THEN Append(out, buf) ELSE out)
    ELSE LET n == Head(nodes)
         IN  IF n.type = "heading" /\ n.level = level /\ buf # <<>>
             THEN SplitBeforeLoop(Tail(nodes), level, <<n>>, Append(out, buf))
             ELSE SplitBeforeLoop(Tail(nodes), level, Append(buf, n), out)

\* split_before(nodes, is a heading with markup header_markup): a new run
\* starts before every heading of the level
SplitBefore(nodes, level) == SplitBeforeLoop(nodes, level, <<>>, <<>>)

\* parent_title: None, or a string
NoTitle == [none |-> TRUE, s |-> <<>>]

SomeTitle(s) == [none |-> FALSE, s |-> s]

TitleSep == <<" ", ">", " ">>

RECURSIVE SplitByHeader(_, _, _)
RECURSIVE SplitRuns(_, _, _)
SplitRuns(runs, level, parent_title) ==
    IF runs = <<>> THEN <<>>
    ELSE LET run == Head(runs)
             header_text == Strip(GetTreenodeText(run[1]))
             title == IF parent_title.none THEN <<>> ELSE parent_title.s
         IN  (IF run[1].type = "heading"
              THEN SplitByHeader(Tail(run), level + 1,
                       SomeTitle(IF parent_title.s # <<>>
                                 THEN Join(TitleSep, <<parent_title.s, header_text>>)
                                 ELSE header_text))
              ELSE << Section(title, GetTreenodesText(run), "text", EmptyDict,
                              TextNodes(run)) >>
                   \o GetNodesNontextContents(run, title))
             \o SplitRuns(Tail(runs), level, parent_title)

\* _split_by_header(nodes, header_markup, parent_title); header_markup is
\* level times "#"
SplitByHeader(nodes, level, parent_title) ==
    SplitRuns(SplitBefore(nodes, level), level, parent_title)

\* -------------------------------------------------------------- split_text
RECURSIVE SplitSections(_, _, _)
SplitSections(sections, metadata, c) ==
    IF sections = <<>> THEN <<>>
    ELSE LET sec == Head(sections)
             md == Update(Update([title |-> sec.title, type |-> sec.type],
                                 sec.metadata), metadata)
             body == Strip(sec.text)
             chunks == RecursiveSplit(body, Separators(c), c)
         IN  (IF sec.text = <<>> THEN <<>>
              ELSE IF sec.type \in {"image", "table"}
              THEN << [chunk |-> sec.text, metadata |-> md, section |-> sec] >>
              ELSE [i \in 1..Len(chunks) |->
                      [chunk |-> chunks[i], metadata |-> md, section |-> sec]])
             \o SplitSections(Tail(sections), metadata, c)

\* split_text(text, metadata=metadata), all it yields: (chunk, metadata)
\* pairs; section is history, the section the pair was made from
SplitText(nodes, metadata, c) ==
    SplitSections(SplitByHeader(nodes, 1, NoTitle), metadata, c)

\* ---------------------------------------------------------- the inputs
\* MarkdownTextSplitter(add_start_index=...) with the other defaults
DefaultCfg(add_start_index) ==
    [chunk_size |-> DefaultChunkSize, chunk_overlap |-> DefaultChunkOverlap,
     separators |-> <<>>, add_start_index |-> add_start_index]

Kinds ==
    {[k |-> "heading", level |-> l] : l \in 1..MaxLevel}
        \cup {[k |-> x, level |-> 0] : x \in {"para", "imgpara", "table", "html"}}

\* The block at position i gets texts of its own.
Names == <<"1", "2", "3", "4", "5", "6", "7">>

MakeNode(kind, i) ==
    CASE kind.k = "heading" -> Heading(i, kind.level, <<"H", Names[i]>>)
      [] kind.k = "para"    -> Paragraph(i, <<"p", Names[i]>>)
      [] kind.k = "imgpara" -> ImageParagraph(i, <<"q", Names[i]>>, <<"u", Names[i]>>,
                                              <<"r", Names[i]>>)
      [] kind.k = "table"   -> Table(i, <<"|t", Names[i], "|">>)
      [] kind.k = "html"    -> HtmlBlock(i, <<"c", Names[i]>>, <<"v", Names[i]>>)

\* every document of at most n blocks
Docs(n) ==
    UNION {{[i \in 1..m |-> MakeNode(ks[i], i)] : ks \in [1..m -> Kinds]} : m \in 0..n}

\* "# A\ntext1\n## B\ntext2\n![x](http://i/1.png)\ntext3"
ScenarioDoc ==
    << Heading(1, 1, <<"A">>), Paragraph(2, <<"text1">>), Heading(3, 2, <<"B">>),
       ImageParagraph(4, <<"text2">>, <<"http://i/1.png">>, <<"text3">>) >>

\* the caller's base metadata
Metas ==
    {EmptyDict, [source |-> "f.md"], [type |-> "text", source |-> "f.md"],
     [title |-> <<"T">>, image_url |-> <<"w">>]}

\* the blocks of a document that _split_by_header has rendered when their
\* rendering is needed: the blocks that hold no image or table
Rendered(nodes) == {i \in 1..Len(nodes) : ~IsContainNontext(nodes[i]) \/ nodes[i].type = "table"}

\* the document in which rendering block k raises
MarkBad(nodes, k) == [nodes EXCEPT ![k].bad = TRUE]

\* every document of at most MaxNodes blocks with one block that fails to render
BadDocInputs == UNION {{MarkBad(d, k) : k \in Rendered(d)} : d \in Docs(MaxNodes)}

Alphabet == {"a", ",", " "}

\* the text of a paragraph: not empty, no white space at either end
ParagraphTexts ==
    {s \in UNION {[1..n -> Alphabet] : n \in 1..MaxLen} :
        s[1] \notin Whitespace /\ s[Len(s)] \notin Whitespace}

\* one paragraph, alone or followed by a table
TextDocInputs ==
    {<<Paragraph(1, s)>> : s \in ParagraphTexts}
        \cup {<<Paragraph(1, s), Table(2, <<"|t|">>)>> : s \in ParagraphTexts}

SeparatorLists == {<<>>, << <<",">> >>, << <<",">>, <<" ">> >>}

\* small chunk sizes, every overlap up to the size, start indexes wanted
TextCfgs ==
    {[chunk_size |-> n, chunk_overlap |-> o, separators |-> seps, add_start_index |-> TRUE] :
        n \in 1..MaxChunk, o \in 0..MaxChunk, seps \in SeparatorLists}

NoLang == [pc |-> "idle", text |-> <<>>, sample |-> <<>>, outcome |-> "", result |-> ""]

\* the separators argument: None, or a list
NoSeparators == [given |-> FALSE, list |-> <<>>]

SomeSeparators(list) == [given |-> TRUE, list |-> list]

NoSplitter ==
    [class |-> "", chunk_size |-> 0, chunk_overlap |-> 0, separators |-> NoSeparators,
     is_separator_regex |-> FALSE]

\* no parser has been constructed
NoParser ==
    [kind |-> "", chunk_size |-> 0, chunk_overlap |-> 0, separators |-> NoSeparators,
     is_separator_regex |-> FALSE, pc |-> "none", content |-> <<>>, markdown |-> <<>>,
     metadata |-> EmptyDict, splitter |-> NoSplitter, signals |-> <<>>]

\* ------------------------------------------------------- create_documents
Idle(c) ==
    /\ cfg = c
    /\ doc = <<>> /\ text = <<>> /\ metadatas = EmptyDict
    /\ pending = <<>> /\ index = 0 /\ previous_chunk_len = 0
    /\ documents = <<>> /\ origin = <<>>
    /\ pc = "idle"
    /\ lang = NoLang
    /\ parser = NoParser

\* create_documents([text], [metadata]) up to the first turn of the loop
Call(nodes, metadata) ==
    /\ pc = "idle"
    /\ doc' = nodes
    /\ text' = Source(nodes)
    /\ metadatas' = metadata
    /\ pending' = SplitText(nodes, metadata, cfg)
    /\ index' = 0
    /\ previous_chunk_len' = 0
    /\ documents' = <<>>
    /\ origin' = <<>>
    /\ pc' = "loop"
    /\ UNCHANGED <<cfg, lang, parser>>

Document(page_content, metadata) ==
    [page_content |-> page_content, metadata |-> metadata]

\* history of one turn of the loop
Turn(section, index_after, len_after) ==
    [section |-> section, before |-> <<index, previous_chunk_len>>,
     after |-> <<index_after, len_after>>]

\* one turn of the loop for an image or a table: appended as it is
AppendNonText ==
    /\ pc = "loop" /\ pending # <<>>
    /\ LET y == Head(pending)
       IN  /\ y.metadata["type"] \in {"image", "table"}
           /\ documents' = Append(documents, Document(y.chunk, y.metadata))
           /\ origin' = Append(origin, Turn(y.section, index, previous_chunk_len))
    /\ pending' = Tail(pending)
    /\ UNCHANGED <<cfg, doc, text, metadatas, index, previous_chunk_len, pc, lang, parser>>

\* one turn of the loop for a piece of text
AppendText ==
    /\ pc = "loop" /\ pending # <<>>
    /\ LET y == Head(pending)
           offset == index + previous_chunk_len - cfg.chunk_overlap
           found == Find(text, y.chunk, IF offset > 0 THEN offset ELSE 0)
       IN  /\ y.metadata["type"] \notin {"image", "table"}
           /\ IF cfg.add_start_index
              THEN /\ index' = found
                   /\ previous_chunk_len' = Len(y.chunk)
                   /\ documents' = Append(documents,
                          Document(y.chunk, Update(y.metadata, [start_index |-> found])))
              ELSE /\ UNCHANGED <<index, previous_chunk_len>>
                   /\ documents' = Append(documents, Document(y.chunk, y.metadata))
           /\ origin' = Append(origin, Turn(y.section, index', previous_chunk_len'))
    /\ pending' = Tail(pending)
    /\ UNCHANGED <<cfg, doc, text, metadatas, pc, lang, parser>>

\* the generator is exhausted: return documents
Return ==
    /\ pc = "loop" /\ pending = <<>>
    /\ pc' = "done"
    /\ UNCHANGED <<cfg, doc, text, metadatas, pending, index, previous_chunk_len,
                   documents, origin, lang, parser>>

\* ------------------------------------------------- BaseParser.get_language
\* str.split(): the maximal runs of non-whitespace characters, in order
SplitWhitespace(s) ==
    LET starts == {i \in 1..Len(s) :
                      s[i] \notin Whitespace /\ (i = 1 \/ s[i - 1] \in Whitespace)}
        start(k) == CHOOSE i \in starts : Cardinality({j \in starts : j < i}) = k - 1
        end(i) == CHOOSE j \in i..Len(s) :
                      /\ \A m \in i..j : s[m] \notin Whitespace
                      /\ j = Len(s) \/ s[j + 1] \in Whitespace
    IN  [k \in 1..Cardinality(starts) |-> SubSeq(s, start(k), end(start(k)))]

\* the text handed to the detector: at most the first 500 characters, with
\* the whitespace runs collapsed to one space each
LangSample(t) ==
    LET cut == IF Len(t) > LangSampleLen THEN Slice(t, 0, LangSampleLen) ELSE t
    IN  Join(<<" ">>, SplitWhitespace(cut))

\* what detect_language does with a text: it returns a tag or it raises
DetectorOutcomes == {"EN", "ZH", "FR", "raise"}

\* the texts classified: five shapes of text at lengths around the limit
LangLengths == {0, 1, 2, 3, LangSampleLen - 1, LangSampleLen, LangSampleLen + 1,
                LangSampleLen + 2, LangSampleLen + 100}

LangShapes == {"zh", "en", "gaps", "padded", "blank"}

LangChar(shape, i, n) ==
    CASE shape = "zh" -> "z"
      [] shape = "en" -> IF i % 4 = 0 THEN " " ELSE "a"
      [] shape = "gaps" -> IF i % 4 = 3 THEN " " ELSE IF i % 4 = 0 THEN "\n" ELSE "a"
      [] shape = "padded" -> IF i <= 2 \/ i > n - 2 THEN " " ELSE "z"
      [] OTHER -> " "

LangTexts == {[i \in 1..n |-> LangChar(shape, i, n)] : n \in LangLengths, shape \in LangShapes}

\* get_language(text): the detector is called on the sample; an exception of
\* the detector is not caught and leaves the method, a tag other than EN and
\* ZH gives EN
GetLanguage ==
    /\ lang.pc = "idle"
    /\ \E t \in LangTexts :
           LET sample == LangSample(t)
           IN  \E o \in DetectorOutcomes :
                   lang' = [pc |-> IF o = "raise" THEN "raised" ELSE "returned",
                            text |-> t,
                            sample |-> sample,
                            outcome |-> o,
                            result |-> IF o = "raise" THEN ""
                                       ELSE IF o \in {"EN", "ZH"} THEN o ELSE "EN"]
    /\ UNCHANGED <<cfg, doc, text, metadatas, pending, index, previous_chunk_len,
                   documents, origin, pc, parser>>

\* ------------------------------------------------------------ the parsers
\* wenqu.constants.CHINESE_SEPARATOR: patterns of Chinese sentence and clause
\* punctuation; a token stands for one pattern
CHINESE_SEPARATOR == << <<"[zh.]">>, <<"[zh,]">> >>

\* bool(self.separators): None and the empty list are false
Truthy(seps) == seps.given /\ seps.list # <<>>

\* the separators a caller constructs a parser with
CallerSeparators ==
    {NoSeparators, SomeSeparators(<<>>), SomeSeparators(<< <<",">> >>),
     SomeSeparators(<< <<",">>, <<" ">> >>)}

ParserKinds == {"markdown", "txt"}

\* TXTParser.__init__, which MarkdownParser inherits
Construct(kind) ==
    /\ parser.pc = "none"
    /\ \E separators \in CallerSeparators, is_separator_regex \in BOOLEAN :
           parser' = [NoParser EXCEPT !.kind = kind,
                                      !.chunk_size = DefaultChunkSize,
                                      !.chunk_overlap = DefaultChunkOverlap,
                                      !.separators = separators,
                                      !.is_separator_regex = is_separator_regex,
                                      !.pc = "new"]
    /\ UNCHANGED <<cfg, doc, text, metadatas, pending, index, previous_chunk_len,
                   documents, origin, pc, lang>>

SplitterClass(kind) ==
    IF kind = "markdown" THEN "MarkdownTextSplitter" ELSE "RecursiveCharacterTextSplitter"

\* the splitter that get_splitter constructs for a language, given by the
\* arguments of its constructor
SelectSplitter(p, lng) ==
    IF lng = "EN"
    THEN [class |-> SplitterClass(p.kind),
          chunk_size |-> p.chunk_size, chunk_overlap |-> p.chunk_overlap,
          separators |-> p.separators,
          is_separator_regex |-> p.is_separator_regex]
    ELSE [class |-> SplitterClass(p.kind),
          chunk_size |-> p.chunk_size, chunk_overlap |-> p.chunk_overlap,
          separators |-> IF Truthy(p.separators) THEN p.separators
                         ELSE SomeSeparators(CHINESE_SEPARATOR),
          is_separator_regex |-> IF Truthy(p.separators) THEN p.is_separator_regex
                                 ELSE TRUE]

\* the cascade the constructed splitter works with: separators or the
\* generic cascade
SplitterSeparators(sp) ==
    IF Truthy(sp.separators) THEN sp.separators.list ELSE DefaultSeparators

\* MarkdownTextSplitter(chunk_size, chunk_overlap, separators, is_separator_regex)
SplitterCfg(sp) ==
    [chunk_size |-> sp.chunk_size, chunk_overlap |-> sp.chunk_overlap,
     separators |-> IF Truthy(sp.separators) THEN sp.separators.list ELSE <<>>,
     add_start_index |-> FALSE]

\* get_splitter(text): the language is classified, the splitter constructed
\* and splitter_selected sent; an exception of get_language leaves the method
\* and the call it is part of
GetSplitter(t) ==
    \E o \in DetectorOutcomes :
        LET result == IF o = "raise" THEN ""
                      ELSE IF o \in {"EN", "ZH"} THEN o ELSE "EN"
            sp == SelectSplitter(parser, result)
        IN  /\ lang' = [pc |-> IF o = "raise" THEN "raised" ELSE "returned",
                        text |-> t, sample |-> LangSample(t), outcome |-> o,
                        result |-> result]
            /\ IF o = "raise"
               THEN /\ parser' = [parser EXCEPT !.pc = "failed"]
                    /\ UNCHANGED cfg
               ELSE /\ parser' = [parser EXCEPT
                          !.splitter = sp,
                          !.signals = Append(@, [name |-> "splitter-selected",
                                                 splitter |-> sp, lang |-> result]),
                          !.pc = "selected"]
                    /\ cfg' = IF parser.kind = "markdown" THEN SplitterCfg(sp) ELSE cfg

\* the texts get_splitter is called with directly
SplitterTexts == {<<>>, <<"a", " ", "a">>, <<"z", "z", "\n", "z">>}

\* parser.get_splitter(text), of a parser of either kind
CallGetSplitter ==
    /\ parser.pc = "new"
    /\ \E t \in SplitterTexts : GetSplitter(t)
    /\ UNCHANGED <<doc, text, metadatas, pending, index, previous_chunk_len,
                   documents, origin, pc>>

\* an HTML comment
Comment == <<"<!--", "c", "-->">>

RECURSIVE RemoveComments(_)
\* COMMENTS_PATTERN.sub("", text): every "<!--" up to the first "-->" after it
RemoveComments(s) ==
    LET opens == {i \in 1..Len(s) : s[i] = "<!--"}
        i == CHOOSE x \in opens : \A y \in opens : x <= y
        closes == {j \in (i + 1)..Len(s) : s[j] = "-->"}
        j == CHOOSE x \in closes : \A y \in closes : x <= y
    IN  IF opens = {} THEN s
        ELSE IF closes = {} THEN s
        ELSE SubSeq(s, 1, i - 1) \o RemoveComments(SubSeq(s, j + 1, Len(s)))

\* the text with a comment after its first character
WithComment(s) == IF s = <<>> THEN Comment ELSE <<Head(s)>> \o Comment \o Tail(s)

\* the documents given to MarkdownParser.get_chunks
ParserDocs == Docs(MaxNodes - 1) \cup {ScenarioDoc}

\* their texts, without and with a comment
Contents == {Source(d) : d \in ParserDocs} \cup {WithComment(Source(d)) : d \in ParserDocs}

\* the metadata given to MarkdownParser.get_chunks
ParserMetas == {EmptyDict, [source |-> "f.md"]}

\* MarkdownParser.get_chunks, up to the return of get_markdown:
\* markdown_generated is sent with the content, the comments are removed
GetMarkdown ==
    /\ parser.kind = "markdown" /\ parser.pc = "new"
    /\ \E content \in Contents, metadata \in ParserMetas :
           parser' = [parser EXCEPT
               !.content = content,
               !.metadata = metadata,
               !.signals = Append(@, [name |-> "markdown-generated", content |-> content]),
               !.markdown = RemoveComments(content),
               !.pc = "markdown"]
    /\ UNCHANGED <<cfg, doc, text, metadatas, pending, index, previous_chunk_len,
                   documents, origin, pc, lang>>

\* MarkdownParser.get_chunks on a path that does not exist: the assertion of
\* input_as_str fails and the call ends with it
GetMarkdownMissingFile ==
    /\ parser.kind = "markdown" /\ parser.pc = "new"
    /\ parser' = [parser EXCEPT !.pc = "failed"]
    /\ UNCHANGED <<cfg, doc, text, metadatas, pending, index, previous_chunk_len,
                   documents, origin, pc, lang>>

\* MarkdownParser.get_chunks: splitter = await self.get_splitter(md_content)
GetChunksSplitter ==
    /\ parser.kind = "markdown" /\ parser.pc = "markdown"
    /\ GetSplitter(parser.markdown)
    /\ UNCHANGED <<doc, text, metadatas, pending, index, previous_chunk_len,
                   documents, origin, pc>>

\* MarkdownParser.get_chunks: splitter.create_documents([md_content],
\* metadatas=[metadata]) is called
GetChunksSplit ==
    /\ parser.kind = "markdown" /\ parser.pc = "selected" /\ pc = "idle"
    /\ \E nodes \in ParserDocs : Source(nodes) = parser.markdown /\ Call(nodes, parser.metadata)

\* MarkdownParser.get_chunks: create_documents has returned, doc_chunked is
\* sent with the chunks and the chunks are returned
GetChunksReturn ==
    /\ parser.kind = "markdown" /\ parser.pc = "selected" /\ pc = "done"
    /\ parser' = [parser EXCEPT
           !.signals = Append(@, [name |-> "doc-chunked", chunks |-> documents]),
           !.pc = "done"]
    /\ UNCHANGED <<cfg, doc, text, metadatas, pending, index, previous_chunk_len,
                   documents, origin, pc, lang>>

\* ------------------------------------------------------- specifications
\* Documents of every shape, split with the default configuration.
Init == \E a \in BOOLEAN : Idle(DefaultCfg(a))

\* every document of at most MaxNodes blocks, and the scenario of the spec
DocInputs == Docs(MaxNodes) \cup {ScenarioDoc}

CallAny == pc = "idle" /\ \E nodes \in DocInputs, m \in Metas : Call(nodes, m)

Next == CallAny \/ AppendNonText \/ AppendText \/ Return

Spec == Init /\ [][Next]_vars

\* Documents in which the rendering of one block raises.
RenderMetas == {EmptyDict, [source |-> "f.md"]}

CallBad == pc = "idle" /\ \E nodes \in BadDocInputs, m \in RenderMetas : Call(nodes, m)

NextRender == CallBad \/ AppendNonText \/ AppendText \/ Return

SpecRender == Init /\ [][NextRender]_vars

\* Paragraphs split with small chunk sizes.
InitText == \E c \in TextCfgs : c.chunk_overlap <= c.chunk_size /\ Idle(c)

CallText == pc = "idle" /\ \E nodes \in TextDocInputs : Call(nodes, EmptyDict)

NextText == CallText \/ AppendNonText \/ AppendText \/ Return

SpecText == InitText /\ [][NextText]_vars

\* Texts classified by language.
NextLang == GetLanguage

SpecLang == Init /\ [][NextLang]_vars

\* Markdown documents chunked by a MarkdownParser.
NextParser ==
    \/ Construct("markdown")
    \/ GetMarkdown \/ GetMarkdownMissingFile
    \/ GetChunksSplitter \/ GetChunksSplit
    \/ AppendNonText \/ AppendText \/ Return
    \/ GetChunksReturn

SpecParser == Init /\ [][NextParser]_vars

\* Splitters selected by parsers of both kinds.
ConstructAny == \E kind \in ParserKinds : Construct(kind)

NextSplitter == ConstructAny \/ CallGetSplitter

SpecSplitter == Init /\ [][NextSplitter]_vars

\* ------------------------------------------------------------ the claims
\* the text a heading contributes to a title
HeaderText(node) == Strip(node.rendered)

\* " > ".join of the texts of the headings
HeadingPath(headings) ==
    Join(TitleSep, [i \in 1..Len(headings) |-> HeaderText(headings[i])])

RECURSIVE Enclosing(_, _, _, _)
\* the headings that enclose block k of the document, outermost first: a
\* heading closes every open heading of its own or a deeper level
Enclosing(nodes, k, i, open) ==
    IF i >= k THEN open
    ELSE IF nodes[i].type = "heading"
         THEN Enclosing(nodes, k, i + 1,
                  Append(SelectSeq(open, LAMBDA h : h.level < nodes[i].level), nodes[i]))
         ELSE Enclosing(nodes, k, i + 1, open)

ExpectedTitle(nodes, k) == HeadingPath(Enclosing(nodes, k, 1, <<>>))

IsTextDoc(i) == origin[i].section.type = "text"

Holds(s, sub) == Occurs(sub, s)

\* C1: splitting "# A\ntext1\n## B\ntext2\n![x](http://i/1.png)\ntext3" with
\* the default chunk size returns exactly four chunks, in this order: a text
\* chunk titled by A holding text1, a text chunk titled by A > B holding
\* text2, an image chunk titled by A > B with image_url http://i/1.png, and a
\* text chunk titled by A > B holding text3.
C1_ScenarioFourChunks ==
    (pc = "done" /\ doc = ScenarioDoc /\ metadatas = EmptyDict) =>
        LET a == HeadingPath(<<doc[1]>>)
            ab == HeadingPath(<<doc[1], doc[3]>>)
            d == documents
        IN  /\ Len(d) = 4
            /\ d[1].metadata["type"] = "text" /\ d[1].metadata["title"] = a
            /\ Holds(d[1].page_content, <<"text1">>)
            /\ d[2].metadata["type"] = "text" /\ d[2].metadata["title"] = ab
            /\ Holds(d[2].page_content, <<"text2">>)
            /\ d[3].metadata["type"] = "image" /\ d[3].metadata["title"] = ab
            /\ d[3].metadata["image_url"] = <<"http://i/1.png">>
            /\ d[4].metadata["type"] = "text" /\ d[4].metadata["title"] = ab
            /\ Holds(d[4].page_content, <<"text3">>)

\* C2: the title of every chunk is the " > "-joined path of the texts of
\* the headings that enclose the chunk's content, outermost first, and is
\* empty when no heading encloses it.
C2_TitleIsHeadingPath ==
    "title" \notin DOMAIN metadatas =>
        \A i \in 1..Len(documents) : \A n \in origin[i].section.nodes :
            doc[n].type # "heading" =>
                documents[i].metadata["title"] = ExpectedTitle(doc, n)

\* content, a level-2 heading, content
IsLevel2Sandwich ==
    /\ Len(doc) = 3
    /\ doc[1].type # "heading" /\ doc[3].type # "heading"
    /\ doc[2].type = "heading" /\ doc[2].level = 2

\* C3: in a document with no level-1 heading and one level-2 heading, with
\* content before and after the heading, the content before the heading is
\* in a section with the empty title, the content after it in a separate
\* section titled by the heading's text alone, and the heading line is in
\* no section body.
C3_Level2WithoutLevel1 ==
    (pc = "done" /\ IsLevel2Sandwich) =>
        \A i \in 1..Len(origin) :
            LET sec == origin[i].section
            IN  /\ 1 \in sec.nodes => sec.title = <<>>
                /\ 3 \in sec.nodes => sec.title = HeaderText(doc[2])
                /\ ~({1, 3} \subseteq sec.nodes)
                /\ 2 \notin sec.nodes
                /\ ~Holds(sec.text, HeaderText(doc[2]))

\* C4: the chunks are in document order: of two chunks, the one returned
\* first holds no content that comes later in the document than content of
\* the other, so that a table between two paragraphs comes after the
\* chunks of the first paragraph and before those of the second.
C4_DocumentOrder ==
    \A i, j \in 1..Len(documents) :
        i < j => \A a \in origin[i].section.nodes, b \in origin[j].section.nodes : a <= b

\* the sections the header splitter yields for the document, as a set
SectionsOf(nodes) ==
    LET secs == SplitByHeader(nodes, 1, NoTitle)
    IN  {secs[i] : i \in 1..Len(secs)}

\* C6: every image or table section with a non-empty payload becomes
\* exactly one chunk, whose content is the payload, whose type is the
\* section's (with image_url the image's src), which carries no start_index
\* and whose turn leaves index and previous_chunk_len as they were.
C6_NonTextIsOneChunk ==
    /\ \A i \in 1..Len(documents) :
          LET sec == origin[i].section
              md == documents[i].metadata
          IN  ~IsTextDoc(i) =>
                /\ documents[i].page_content = sec.text
                /\ md["type"] = sec.type
                /\ sec.type = "image" => md["image_url"] = sec.metadata["image_url"]
                /\ "start_index" \notin DOMAIN md
                /\ origin[i].after = origin[i].before
    /\ pc = "done" =>
          \A sec \in SectionsOf(doc) :
              (sec.type # "text" /\ sec.text # <<>>) =>
                  Cardinality({i \in 1..Len(origin) : origin[i].section = sec}) = 1

GeneratedKeys == {"title", "type", "image_url"}

\* C7: a key of the caller's metadata that the splitter generates too
\* keeps the generated value in every chunk, and every other key of the
\* caller's metadata is copied into every chunk.
C7_GeneratedKeysWin ==
    \A i \in 1..Len(documents) :
        LET sec == origin[i].section
            md == documents[i].metadata
        IN  /\ md["title"] = sec.title
            /\ md["type"] = sec.type
            /\ "image_url" \in DOMAIN sec.metadata =>
                   md["image_url"] = sec.metadata["image_url"]
            /\ \A k \in DOMAIN metadatas \ GeneratedKeys :
                   k \in DOMAIN md /\ md[k] = metadatas[k]

\* C8: with add_start_index, the start_index of every text chunk is an
\* offset i >= 0 into the section body it was split from with
\* body[i : i + len(content)] = content, and start_index does not decrease
\* over the text chunks of one section.
C8_StartIndexIntoBody ==
    cfg.add_start_index =>
        \A i \in 1..Len(documents) :
            IsTextDoc(i) =>
                LET si == documents[i].metadata["start_index"]
                    body == Strip(origin[i].section.text)
                    content == documents[i].page_content
                IN  /\ "start_index" \in DOMAIN documents[i].metadata
                    /\ si >= 0
                    /\ Slice(body, si, si + Len(content)) = content
                    /\ \A j \in 1..(i - 1) :
                           (IsTextDoc(j) /\ origin[j].section = origin[i].section) =>
                               documents[j].metadata["start_index"] <= si

\* a configured separator occurs in the piece; the empty separator, which
\* splits between any two characters, occurs in every piece
SeparatorIn(s) ==
    \E k \in 1..Len(Separators(cfg)) :
        Separators(cfg)[k] = <<>> \/ Occurs(Separators(cfg)[k], s)

\* C5: every text chunk is at most chunk_size long, unless it is a single
\* piece in which no configured separator occurs.
C5_ChunkSizeBound ==
    \A i \in 1..Len(documents) :
        IsTextDoc(i) =>
            \/ Len(documents[i].page_content) <= cfg.chunk_size
            \/ ~SeparatorIn(documents[i].page_content)

\* tokens other than white space and the ">" of a title path
Essence(s) == SelectSeq(s, LAMBDA t : t \notin Whitespace \cup {">"})

\* s without the first occurrence of sub
Without(s, sub) ==
    LET i == Find(s, sub, 0)
    IN  IF i = -1 \/ sub = <<>> THEN s
        ELSE Slice(s, 0, i) \o Slice(s, i + Len(sub), Len(s))

\* what a chunk says, apart from white space and start_index
Gist(content, md) ==
    [content |-> Essence(content), title |-> Essence(md["title"]), type |-> md["type"],
     rest |-> [k \in DOMAIN md \ {"title", "type", "start_index"} |-> md[k]]]

\* the chunks of the document had block k rendered, with the text of block k
\* taken out of them and the chunks that held nothing else dropped
ExpectedWithout(k) ==
    LET clean == [doc EXCEPT ![k].bad = FALSE]
        pairs == SplitText(clean, metadatas, cfg)
        gists == [i \in 1..Len(pairs) |->
                    Gist(Without(pairs[i].chunk, doc[k].raw),
                         [pairs[i].metadata EXCEPT !["title"] = Without(@, doc[k].raw)])]
    IN  SelectSeq(gists, LAMBDA g : g.content # <<>>)

\* C10: when the rendering of one block raises, the call still returns its
\* chunks, the block contributes the empty string where its rendering was
\* needed (section body, heading text or table payload), and the chunks are
\* otherwise those of the same document without the failure.
C10_RenderFailureIsAbsorbed ==
    pc = "done" =>
        \A k \in 1..Len(doc) :
            doc[k].bad =>
                [i \in 1..Len(documents) |->
                    Gist(documents[i].page_content, documents[i].metadata)]
                    = ExpectedWithout(k)

\* a block failed to render and the call returned chunks of other blocks
C10_Witness ==
    /\ pc = "done" /\ Len(doc) >= 2 /\ Len(documents) >= 1
    /\ \E k \in 1..Len(doc) : doc[k].bad /\ doc[k].type = "paragraph"

\* the characters of a text that are not whitespace
Inked(s) == SelectSeq(s, LAMBDA ch : ch \notin Whitespace)

\* C9: get_language never raises and always returns EN or ZH: whatever the
\* text and whatever the detector does (a tag EN or ZH, another tag, a
\* failure), it returns the detector's tag when that is EN or ZH and EN
\* otherwise, the detector having been given at most the first 500 characters
\* with the whitespace runs collapsed to single spaces.
C9_GetLanguageNeverRaises ==
    lang.pc # "idle" =>
        /\ lang.pc = "returned"
        /\ lang.result = (IF lang.outcome \in {"EN", "ZH"} THEN lang.outcome ELSE "EN")
        /\ Len(lang.sample) <= LangSampleLen
        /\ Inked(lang.sample) = Inked(Slice(lang.text, 0, LangSampleLen))
        /\ \A i \in 1..Len(lang.sample) :
               lang.sample[i] \in Whitespace =>
                   /\ lang.sample[i] = " "
                   /\ 1 < i /\ i < Len(lang.sample)
                   /\ lang.sample[i + 1] \notin Whitespace

\* the names of the signals sent so far, in the order they were sent
SignalNames == [i \in 1..Len(parser.signals) |-> parser.signals[i].name]

SignalOrder == <<"markdown-generated", "splitter-selected", "doc-chunked">>

\* the order of the three signals of a get_chunks call and what has
\* happened when each is sent
SignalsInOrder ==
    LET n == Len(parser.signals)
    IN  /\ SignalNames = SubSeq(SignalOrder, 1, n)
        /\ parser.pc = "done" => n = 3
        /\ n = 0 => lang = NoLang /\ pc = "idle"
        /\ n < 2 => pc = "idle" /\ documents = <<>> /\ pending = <<>>
        /\ n >= 2 => /\ lang.pc = "returned"
                     /\ parser.signals[2].lang = lang.result
                     /\ cfg = SplitterCfg(parser.signals[2].splitter)
        /\ n = 3 => pc = "done" /\ parser.signals[3].chunks = documents
        /\ parser.pc = "failed" => n < 3

\* C11: in every MarkdownParser.get_chunks call that completes, the three
\* signals are sent once each, in this order: markdown-generated before the
\* language is classified and the text split, splitter-selected after the
\* classification has fixed the separators and before any chunk is produced,
\* doc-chunked when the whole chunk list exists; markdown-generated carries
\* the text that is split afterwards, and a call that fails sends no
\* doc-chunked.
C11_SignalsOnceInOrder ==
    parser.kind = "markdown" =>
        /\ SignalsInOrder
        /\ pc # "idle" => parser.signals[1].content = text

\* the same parser constructed with the other is_separator_regex
OtherRegex(p) == [p EXCEPT !.is_separator_regex = ~@]

\* C12: get_splitter, of a MarkdownParser and of a TXTParser, uses the
\* caller's separators together with the caller's is_separator_regex when
\* the caller gave separators; when the caller gave none, EN uses the
\* generic cascade, ZH the Chinese cascade with is_separator_regex true, and
\* the caller's is_separator_regex is ignored.
C12_SeparatorsByLanguage ==
    parser.pc = "selected" =>
        LET sp == parser.splitter
        IN  IF Truthy(parser.separators)
            THEN /\ SplitterSeparators(sp) = parser.separators.list
                 /\ sp.is_separator_regex = parser.is_separator_regex
            ELSE /\ lang.result = "EN" => SplitterSeparators(sp) = DefaultSeparators
                 /\ lang.result = "ZH" => /\ SplitterSeparators(sp) = CHINESE_SEPARATOR
                                          /\ sp.is_separator_regex = TRUE
                 /\ sp = SelectSplitter(OtherRegex(parser), lang.result)

====
